---- MODULE Spec2Model ----
(***************************************************************************)
(* API Sentinel backend: the request-event store, the anomaly detection   *)
(* engine (core/anomaly_detector.py), the alert dispatcher                 *)
(* (core/alert_system.py) and the periodic sweeps (jobs/tasks.py).         *)
(*                                                                         *)
(* Time is counted in minutes.  A row of api_requests is immutable, so n   *)
(* rows that agree on every column the core reads are kept as one record   *)
(* with multiplicity n (the rows of one ingested batch).                   *)
(***************************************************************************)
EXTENDS Integers, Sequences, FiniteSets, TLC

VARIABLES
    requests,    \* table api_requests, in insertion order
    anomalies,   \* table anomalies, in insertion order; id = position
    now,         \* the clock read by datetime.utcnow() and func.now()
    detectLog,   \* the detect_anomalies calls that returned, latest last
    sweep,       \* per process_new_anomalies instance: where it is in its loop
    claimed,     \* per anomaly id: the sweep instances that committed its mark
    dispatched,  \* per anomaly id: how often send_anomaly_alert.delay was called
    channels,    \* table alert_channels; id = position
    sendLog,     \* the last send_alert call
    detectTasks, \* the detect_anomalies tasks sent to the broker, with their state
    project_table,  \* table projects: request_count per project
    handlers,    \* per ingest_api_requests call in progress: what it has loaded
    batch_size,     \* SentinelCore.batch_size
    request_queue,  \* SentinelCore.request_queue
    queue_lock,     \* SentinelCore.queue_lock: the thread that holds it, or none
    timer,          \* SentinelCore.timer: whether a started Timer has yet to fire
    threads,        \* per SDK thread: where it is in capture_request or _send_batch
    captured,       \* number of request logs appended to request_queue so far
    delivered       \* the batches the backend answered with 201, latest last

ingestVars == <<project_table, handlers>>

sdkVars == <<batch_size, request_queue, queue_lock, timer, threads, captured,
             delivered>>

vars == <<requests, anomalies, now, detectLog, sweep, claimed, dispatched,
          channels, sendLog, detectTasks, ingestVars, sdkVars>>

----------------------------------------------------------------------------
(* Bounds of the model *)

MaxBatches == 2      \* ingested batches
MaxDetects == 2      \* detect_anomalies calls
MaxTicks == 2        \* hours the clock may be advanced
MaxChannels == 2     \* rows of alert_channels
MaxLogs == 3         \* request logs the SDK captures
MaxBatchSize == 2    \* largest batch_size an SDK instance is built with

(* Program constants *)

endpoint_window == 60        \* timedelta(hours=1)
rate_window == 1             \* timedelta(minutes=1)
request_threshold == 100
error_window == 5            \* timedelta(minutes=5)
error_threshold_pct == 20    \* error_threshold = 0.2
high_error_pct == 50         \* error_rate >= 0.5
min_requests == 10
location_window == 1440      \* timedelta(hours=24)
server_error == 500          \* ApiRequest.status_code >= 500

sweep_window == 60           \* timedelta(hours=1) of process_new_anomalies

default_batch_size == 10     \* SentinelCore(batch_size: int = 10)
created == 201               \* if response.status_code != 201

suspicious_countries == {"KP", "IR", "SY", "CU"}

Projects == {"P1", "P2"}

\* Instances of process_new_anomalies that may run at the same time
Sweeps == {"s1", "s2"}

\* A sweep instance that is not running
Idle == [pc |-> "idle", todo |-> <<>>, i |-> 0]

----------------------------------------------------------------------------
(* Generic helpers *)

RECURSIVE SetToSeq(_)
SetToSeq(S) ==
    IF S = {} THEN <<>>
    ELSE LET x == CHOOSE y \in S : TRUE IN <<x>> \o SetToSeq(S \ {x})

RECURSIVE SumN(_)
\* func.count(ApiRequest.id) over a selection of rows
SumN(rows) ==
    IF rows = <<>> THEN 0 ELSE Head(rows).n + SumN(Tail(rows))

Range(s) == {s[i] : i \in 1..Len(s)}

----------------------------------------------------------------------------
(* core/models.py *)

ApiRequest(p, method, path, status_code, ip, country_code, t, n) ==
    [project_id |-> p, method |-> method, path |-> path,
     status_code |-> status_code, ip |-> ip, country_code |-> country_code,
     created_at |-> t, n |-> n]

NoMsg == [method |-> "", path |-> "", count |-> 0, total |-> 0, country |-> ""]

\* Anomaly(...) as the scanners construct it: id, created_at, resolved,
\* resolved_at and processed are filled by the column defaults at insert.
Anomaly(p, type, endpoint_path, ip, message, severity) ==
    [project_id |-> p, type |-> type, endpoint_path |-> endpoint_path,
     ip |-> ip, message |-> message, severity |-> severity]

\* the row stored as one the sweep has already handled
AnomalyRowProcessed(a, id, t) ==
    [id |-> id, project_id |-> a.project_id, type |-> a.type,
     endpoint_path |-> a.endpoint_path, ip |-> a.ip, message |-> a.message,
     severity |-> a.severity, created_at |-> t,
     resolved |-> FALSE, resolved_at |-> -1, processed |-> TRUE]

\* The row written for a constructed anomaly a, as the id-th row, at time t.
AnomalyRow(a, id, t) ==
    [id |-> id, project_id |-> a.project_id, type |-> a.type,
     endpoint_path |-> a.endpoint_path, ip |-> a.ip, message |-> a.message,
     severity |-> a.severity, created_at |-> t,
     resolved |-> FALSE, resolved_at |-> -1, processed |-> FALSE]

----------------------------------------------------------------------------
(* core/anomaly_detector.py *)

\* f"{method}:{path}"
EndpointKey(method, path) == method \o ":" \o path

\* The for-loop of _detect_new_endpoints over recent_requests[i..].  The n
\* rows of one record give the same key: the first may be reported, the
\* other n-1 find the key in seen_new_endpoints.
RECURSIVE NewEndpointLoop(_, _, _, _, _, _)
NewEndpointLoop(p, recent_requests, i, known_endpoints, seen_new_endpoints, acc) ==
    IF i > Len(recent_requests) THEN acc
    ELSE LET request == recent_requests[i]
             endpoint_key == EndpointKey(request.method, request.path)
         IN IF endpoint_key \notin known_endpoints
               /\ endpoint_key \notin seen_new_endpoints
            THEN NewEndpointLoop(p, recent_requests, i + 1, known_endpoints,
                     seen_new_endpoints \cup {endpoint_key},
                     Append(acc, Anomaly(p, "new_endpoint", request.path, "",
                         [NoMsg EXCEPT !.method = request.method,
                                       !.path = request.path],
                         "low")))
            ELSE NewEndpointLoop(p, recent_requests, i + 1, known_endpoints,
                     seen_new_endpoints, acc)

\* ApiRequest.created_at >= recent_time
InWindow(r, recent_time) == r.created_at >= recent_time

\* the history filter with <= in place of <
InHistoryInclusive(r, recent_time) == r.created_at <= recent_time

\* ApiRequest.created_at < recent_time
InHistory(r, recent_time) == r.created_at < recent_time

\* the scanner with nothing known from before the window
NewEndpointsNoHistory(reqs, p, t) ==
    NewEndpointLoop(p,
        SelectSeq(reqs, LAMBDA r : r.project_id = p /\ r.created_at >= t - endpoint_window),
        1, {}, {}, <<>>)

\* the history query with a cutoff one window further back than the window's
NewEndpointsShortHistory(reqs, p, t) ==
    NewEndpointLoop(p,
        SelectSeq(reqs, LAMBDA r : r.project_id = p /\ r.created_at >= t - endpoint_window),
        1,
        {EndpointKey(r.method, r.path) : r \in
            {q \in Range(reqs) : q.project_id = p /\ q.created_at < t - 2 * endpoint_window}},
        {}, <<>>)

\* _detect_new_endpoints, with t the value datetime.utcnow() returned
_detect_new_endpoints(reqs, p, t) ==
    LET recent_time == t - endpoint_window
        recent_requests ==
            SelectSeq(reqs, LAMBDA r : r.project_id = p /\ InWindow(r, recent_time))
        old_endpoints ==
            {<<r.method, r.path>> : r \in
                {q \in Range(reqs) : q.project_id = p /\ InHistory(q, recent_time)}}
        known_endpoints == {EndpointKey(e[1], e[2]) : e \in old_endpoints}
    IN NewEndpointLoop(p, recent_requests, 1, known_endpoints, {}, <<>>)

\* the group filter with >= in place of >
RateHavingInclusive(count) == count >= request_threshold

\* having(func.count(ApiRequest.id) > request_threshold)
RateHaving(count) == count > request_threshold

\* severity of a rate-limit anomaly
RateSeverity(count) ==
    IF count > request_threshold * 2 THEN "high" ELSE "medium"

\* the rate query without the project filter
RateAllProjects(reqs, p, t) ==
    LET time_window == t - rate_window
        rows == SelectSeq(reqs, LAMBDA r : r.created_at >= time_window)
        CountOf(ip) == SumN(SelectSeq(rows, LAMBDA r : r.ip = ip))
        ip_counts == SetToSeq({ip \in {r.ip : r \in Range(rows)} : RateHaving(CountOf(ip))})
    IN [k \in 1..Len(ip_counts) |->
            Anomaly(p, "rate_limit", "", ip_counts[k],
                [NoMsg EXCEPT !.count = CountOf(ip_counts[k])],
                RateSeverity(CountOf(ip_counts[k])))]

\* _detect_rate_limit_violations, with t the value datetime.utcnow() returned
_detect_rate_limit_violations(reqs, p, t) ==
    LET time_window == t - rate_window
        rows == SelectSeq(reqs, LAMBDA r : r.project_id = p /\ r.created_at >= time_window)
        CountOf(ip) == SumN(SelectSeq(rows, LAMBDA r : r.ip = ip))
        ip_counts == SetToSeq({ip \in {r.ip : r \in Range(rows)} : RateHaving(CountOf(ip))})
    IN [k \in 1..Len(ip_counts) |->
            Anomaly(p, "rate_limit", "", ip_counts[k],
                [NoMsg EXCEPT !.count = CountOf(ip_counts[k])],
                RateSeverity(CountOf(ip_counts[k])))]

\* the rate comparison with > in place of >=
RateAbove(error_count, total_count, pct) == error_count * 100 > pct * total_count

\* error_rate >= pct / 100, for error_rate = error_count / total_count
RateAtLeast(error_count, total_count, pct) == error_count * 100 >= pct * total_count

\* the sample check off by one
TooFewRequestsOffByOne(total_count) == total_count < min_requests - 1

\* if total_count < min_requests: continue
TooFewRequests(total_count) == total_count < min_requests

\* the severity of an error spike
ErrorSeverity(error_count, total_count) ==
    IF RateAtLeast(error_count, total_count, high_error_pct) THEN "high" ELSE "medium"

\* _detect_error_spikes, with t the value datetime.utcnow() returned
_detect_error_spikes(reqs, p, t) ==
    LET time_window == t - error_window
        rows == SelectSeq(reqs, LAMBDA r : r.project_id = p /\ r.created_at >= time_window)
        Group(e) == SelectSeq(rows, LAMBDA r : r.method = e[1] /\ r.path = e[2])
        total_count(e) == SumN(Group(e))
        error_count(e) ==
            SumN(SelectSeq(Group(e), LAMBDA r : r.status_code >= server_error))
        endpoints == SetToSeq({<<r.method, r.path>> : r \in Range(rows)})
        spikes == SelectSeq(endpoints, LAMBDA e :
                      /\ ~TooFewRequests(total_count(e))
                      /\ RateAtLeast(error_count(e), total_count(e), error_threshold_pct))
    IN [k \in 1..Len(spikes) |->
            Anomaly(p, "error_spike", spikes[k][2], "",
                [NoMsg EXCEPT !.method = spikes[k][1], !.path = spikes[k][2],
                              !.count = error_count(spikes[k]),
                              !.total = total_count(spikes[k])],
                ErrorSeverity(error_count(spikes[k]), total_count(spikes[k])))]

\* The for-loop of _detect_suspicious_locations over suspicious_requests[i..]
RECURSIVE SuspiciousLoop(_, _, _, _, _)
SuspiciousLoop(p, suspicious_requests, i, seen_ips, acc) ==
    IF i > Len(suspicious_requests) THEN acc
    ELSE LET request == suspicious_requests[i]
         IN IF request.ip \in seen_ips
            THEN SuspiciousLoop(p, suspicious_requests, i + 1, seen_ips, acc)
            ELSE SuspiciousLoop(p, suspicious_requests, i + 1,
                     seen_ips \cup {request.ip},
                     Append(acc, Anomaly(p, "suspicious_location", request.path,
                         request.ip,
                         [NoMsg EXCEPT !.country = request.country_code],
                         "high")))

\* the scanner without the country filter
SuspiciousAnyCountry(reqs, p, t) ==
    SuspiciousLoop(p,
        SelectSeq(reqs, LAMBDA r : r.project_id = p /\ r.created_at >= t - location_window),
        1, {}, <<>>)

\* _detect_suspicious_locations, with t the value datetime.utcnow() returned
_detect_suspicious_locations(reqs, p, t) ==
    LET recent_time == t - location_window
        suspicious_requests ==
            SelectSeq(reqs, LAMBDA r : /\ r.project_id = p
                                       /\ r.created_at >= recent_time
                                       /\ r.country_code \in suspicious_countries)
    IN SuspiciousLoop(p, suspicious_requests, 1, {}, <<>>)

\* What detect_anomalies collects: the four scanners' results in call order;
\* ts[k] is the clock value the k-th scanner reads.
DetectResult(reqs, p, ts) ==
    _detect_new_endpoints(reqs, p, ts[1])
        \o _detect_rate_limit_violations(reqs, p, ts[2])
        \o _detect_error_spikes(reqs, p, ts[3])
        \o _detect_suspicious_locations(reqs, p, ts[4])

\* nothing added
AddNone(table, new, t) == table

\* the rows added and every row of the table marked processed
AddAllMarking(table, new, t) ==
    [k \in 1..(Len(table) + Len(new)) |->
        IF k <= Len(table) THEN [table[k] EXCEPT !.processed = TRUE]
        ELSE [id |-> k, project_id |-> new[k - Len(table)].project_id,
              type |-> new[k - Len(table)].type,
              endpoint_path |-> new[k - Len(table)].endpoint_path,
              ip |-> new[k - Len(table)].ip,
              message |-> new[k - Len(table)].message,
              severity |-> new[k - Len(table)].severity, created_at |-> t,
              resolved |-> FALSE, resolved_at |-> -1, processed |-> FALSE]]

\* db.add_all(anomalies); db.commit()
AddAll(table, new, t) ==
    table \o [k \in 1..Len(new) |-> AnomalyRow(new[k], Len(table) + k, t)]

\* Minutes that may pass between the first and a later datetime.utcnow()
\* of one detect call
Skews == {0, 1}

\* The clock values four successive datetime.utcnow() calls may return
ClockReadings(t) ==
    {ts \in [1..4 -> {t + d : d \in Skews}] :
        ts[1] = t /\ \A k \in 1..3 : ts[k] <= ts[k + 1]}

----------------------------------------------------------------------------
(* Operations *)

\* api/ingest.py ingest_api_requests: n rows that agree on the columns read
\* by the detector are stored with created_at = func.now()
Ingest(p, method, path, status_code, ip, country_code, n) ==
    /\ Len(requests) < MaxBatches
    /\ requests' = Append(requests,
           ApiRequest(p, method, path, status_code, ip, country_code, now, n))
    /\ project_table' = [project_table EXCEPT ![p] = @ + n]
    /\ UNCHANGED <<anomalies, now, detectLog, sweep, claimed, dispatched,
                   channels, sendLog, detectTasks, handlers, sdkVars>>

\* jobs/tasks.py detect_anomalies(project_id) -> AnomalyDetector.detect_anomalies
\* readings: the clock values its four scanners may read
DetectTask(p, readings) ==
    /\ \E ts \in readings :
        LET out == DetectResult(requests, p, ts)
            run == [project_id |-> p, requests |-> requests, ts |-> ts,
                    first |-> Len(anomalies), out |-> out, failed |-> 0]
        IN /\ anomalies' = IF out /= <<>> THEN AddAll(anomalies, out, ts[4])
                           ELSE anomalies
           /\ now' = ts[4]
           /\ detectLog' = Append(detectLog, run)
           /\ claimed' = claimed \o [k \in 1..Len(out) |-> {}]
           /\ dispatched' = dispatched \o [k \in 1..Len(out) |-> 0]
           /\ UNCHANGED <<requests, sweep, channels, sendLog>>

\* a detect_anomalies task started on its own
Detect(p, readings) ==
    /\ Len(detectLog) < MaxDetects
    /\ DetectTask(p, readings)
    /\ UNCHANGED <<detectTasks, ingestVars, sdkVars>>

\* the call saves what the scanners before the k-th found, then fails
DetectTaskSavesPartial(p, readings, k) ==
    /\ \E ts \in readings :
        LET done == (IF k > 1 THEN _detect_new_endpoints(requests, p, ts[1]) ELSE <<>>)
                 \o (IF k > 2 THEN _detect_rate_limit_violations(requests, p, ts[2]) ELSE <<>>)
                 \o (IF k > 3 THEN _detect_error_spikes(requests, p, ts[3]) ELSE <<>>)
        IN /\ now' = ts[k]
           /\ anomalies' = AddAll(anomalies, done, ts[k])
           /\ claimed' = claimed \o [n \in 1..Len(done) |-> {}]
           /\ dispatched' = dispatched \o [n \in 1..Len(done) |-> 0]
           /\ detectLog' = Append(detectLog,
                  [project_id |-> p, requests |-> requests, ts |-> ts,
                   first |-> Len(anomalies), out |-> <<>>, failed |-> k])
    /\ UNCHANGED <<requests, sweep, channels, sendLog>>

\* detect_anomalies(project_id) when its k-th scanner raises (the store is
\* unavailable for its query): the exception leaves detect_anomalies before
\* db.add_all, the task closes its session and ends with the exception
DetectTaskRaises(p, readings, k) ==
    /\ \E ts \in readings :
        /\ now' = ts[k]
        /\ detectLog' = Append(detectLog,
               [project_id |-> p, requests |-> requests, ts |-> ts,
                first |-> Len(anomalies), out |-> <<>>, failed |-> k])
    /\ UNCHANGED <<requests, anomalies, sweep, claimed, dispatched, channels,
                   sendLog>>

\* a detect_anomalies task started on its own, whose k-th scanner raises
DetectRaises(p, readings, k) ==
    /\ Len(detectLog) < MaxDetects
    /\ DetectTaskRaises(p, readings, k)
    /\ UNCHANGED <<detectTasks, ingestVars, sdkVars>>

\* task = detect_anomalies.delay(project_id): a message for the broker
DetectMessage(p, n) == [project_id |-> p, sweep |-> n, state |-> "PENDING"]

\* only the first project gets its task
DelayFirst(tasks, projects, n) == Append(tasks, DetectMessage(projects[1], n))

\* for project in projects: detect_anomalies.delay(str(project.id))
DelayAll(tasks, projects, n) ==
    tasks \o [k \in 1..Len(projects) |-> DetectMessage(projects[k], n)]

\* jobs/tasks.py schedule_anomaly_detection, with the broker reachable: the
\* n-th detection sweep sends one task for every row of projects
ScheduleDetection ==
    /\ Len(detectTasks) < MaxDetects
    /\ LET n == IF detectTasks = <<>> THEN 1
                ELSE detectTasks[Len(detectTasks)].sweep + 1
       IN detectTasks' = DelayAll(detectTasks, SetToSeq(Projects), n)
    /\ UNCHANGED <<requests, anomalies, now, detectLog, sweep, claimed,
                   dispatched, channels, sendLog, ingestVars, sdkVars>>

\* A worker takes a pending detect_anomalies task and runs it to its end
RunDetect(i) ==
    /\ detectTasks[i].state = "PENDING"
    /\ DetectTask(detectTasks[i].project_id, {[k \in 1..4 |-> now]})
    /\ detectTasks' = [detectTasks EXCEPT ![i].state = "SUCCESS"]
    /\ UNCHANGED <<ingestVars, sdkVars>>

\* A worker takes a pending detect_anomalies task, whose k-th scanner raises
RunDetectRaises(i, k) ==
    /\ detectTasks[i].state = "PENDING"
    /\ DetectTaskRaises(detectTasks[i].project_id, {[j \in 1..4 |-> now]}, k)
    /\ detectTasks' = [detectTasks EXCEPT ![i].state = "FAILURE"]
    /\ UNCHANGED <<ingestVars, sdkVars>>

\* The clock advances by d minutes
Tick(d) ==
    /\ now + d <= MaxTicks * endpoint_window
    /\ now' = now + d
    /\ UNCHANGED <<requests, anomalies, detectLog, sweep, claimed, dispatched,
                   channels, sendLog, detectTasks,
                   ingestVars, sdkVars>>

----------------------------------------------------------------------------
(* jobs/tasks.py process_new_anomalies: the alert sweep.  Each instance has *)
(* its own session; what it commits is visible to the others at once.       *)

\* the filter without the processed column
Recent(row, recent_time) == row.created_at >= recent_time

\* the filter without the created_at column
UnprocessedAnyAge(row, recent_time) == row.processed = FALSE

\* Anomaly.created_at >= recent_time, Anomaly.processed == False
Unprocessed(row, recent_time) ==
    row.created_at >= recent_time /\ row.processed = FALSE

\* a query that returns every row
EveryRow(table, t) == [k \in 1..Len(table) |-> table[k].id]

\* the query of process_new_anomalies at clock value t: the ids it returns
RecentUnprocessed(table, t) ==
    LET recent_time == t - sweep_window
        rows == SelectSeq(table, LAMBDA row : Unprocessed(row, recent_time))
    IN [k \in 1..Len(rows) |-> rows[k].id]

\* the mark left uncommitted
NotMarked(table, id) == table

\* the mark written together with a resolution
MarkAndResolve(table, id) ==
    [table EXCEPT ![id].processed = TRUE, ![id].resolved = TRUE]

\* anomaly.processed = True; db.commit()
MarkProcessed(table, id) == [table EXCEPT ![id].processed = TRUE]

\* db = SessionLocal(); anomalies = db.query(Anomaly).filter(...).all();
\* with nothing found the loop body never runs and the task returns
SweepQuery(s) ==
    /\ sweep[s].pc = "idle"
    /\ LET todo == RecentUnprocessed(anomalies, now)
       IN sweep' = [sweep EXCEPT ![s] =
              IF todo = <<>> THEN Idle ELSE [pc |-> "mark", todo |-> todo, i |-> 1]]
    /\ UNCHANGED <<requests, anomalies, now, detectLog, claimed, dispatched,
                   channels, sendLog, detectTasks,
                   ingestVars, sdkVars>>

\* the first two statements of the loop body, for anomalies[todo[i]]
SweepCommit(s) ==
    /\ sweep[s].pc = "mark"
    /\ LET id == sweep[s].todo[sweep[s].i]
       IN /\ anomalies' = MarkProcessed(anomalies, id)
          /\ claimed' = [claimed EXCEPT ![id] = @ \cup {s}]
    /\ sweep' = [sweep EXCEPT ![s].pc = "send"]
    /\ UNCHANGED <<requests, now, detectLog, dispatched, channels, sendLog,
            detectTasks,
                   ingestVars, sdkVars>>

\* await send_anomaly_alert.delay(str(anomaly.id)): the call queues the task;
\* the call or the await may raise, which ends the sweep (finally: db.close())
SweepDispatch(s) ==
    /\ sweep[s].pc = "send"
    /\ LET id == sweep[s].todo[sweep[s].i]
       IN \E outcome \in {"returned", "delay_raised", "await_raised"} :
            /\ dispatched' = IF outcome = "delay_raised" THEN dispatched
                             ELSE [dispatched EXCEPT ![id] = @ + 1]
            /\ sweep' = [sweep EXCEPT ![s] =
                   IF outcome = "returned" /\ sweep[s].i < Len(sweep[s].todo)
                   THEN [@ EXCEPT !.pc = "mark", !.i = @ + 1]
                   ELSE Idle]
    /\ UNCHANGED <<requests, anomalies, now, detectLog, claimed, channels, sendLog,
            detectTasks,
                   ingestVars, sdkVars>>

\* the whole row written back as it was when it was created
ResolvedFresh(row, t) ==
    [row EXCEPT !.resolved = TRUE, !.resolved_at = t, !.processed = FALSE]

\* the flag set without the time
ResolvedUnstamped(row, t) == [row EXCEPT !.resolved = TRUE]

\* anomaly.resolved = True; anomaly.resolved_at = datetime.utcnow()
Resolved(row, t) == [row EXCEPT !.resolved = TRUE, !.resolved_at = t]

\* api/anomalies.py resolve_anomaly(anomaly_id), called by the owner of the
\* anomaly's project: an id that is not found is answered with 404
Resolve(anomaly_id) ==
    /\ anomalies' =
           IF anomaly_id \in 1..Len(anomalies)
           THEN [anomalies EXCEPT ![anomaly_id] = Resolved(@, now)]
           ELSE anomalies
    /\ UNCHANGED <<requests, now, detectLog, sweep, claimed, dispatched,
                   channels, sendLog, detectTasks,
                   ingestVars, sdkVars>>

\* The worker process running the sweep dies; its session is gone
Crash(s) ==
    /\ sweep[s].pc /= "idle"
    /\ sweep' = [sweep EXCEPT ![s] = Idle]
    /\ UNCHANGED <<requests, anomalies, now, detectLog, claimed, dispatched,
                   channels, sendLog, detectTasks,
                   ingestVars, sdkVars>>

----------------------------------------------------------------------------
(* core/alert_system.py: the alert dispatcher.  A config key that is absent *)
(* (or whose value is empty) reads as ""; an environment variable is TRUE   *)
(* when it is set.                                                          *)

\* A row of alert_channels
AlertChannel(id, p, type, config, active) ==
    [id |-> id, project_id |-> p, type |-> type, config |-> config,
     active |-> active]

\* What client.post may do: answer with a status code, or raise
Response(status_code) == [raised |-> FALSE, status_code |-> status_code]
PostRaised == [raised |-> TRUE, status_code |-> 0]

\* What a channel handler does: called = an outbound POST was made,
\* raised = it ended with an exception, result = the value it returned
Outcome(called, raised, result) ==
    [called |-> called, raised |-> raised, result |-> result]

\* a POST whose answer is judged by ok
Posted(resp, ok) ==
    IF resp.raised THEN Outcome(TRUE, TRUE, FALSE) ELSE Outcome(TRUE, FALSE, ok)

\* the handler without its try/except
Propagate(outcome) == outcome

\* try: ... except Exception: return False
TryExcept(outcome) ==
    IF outcome.raised THEN Outcome(outcome.called, FALSE, FALSE) ELSE outcome

\* _send_resend_email
_send_resend_email(env, resp) ==
    IF ~env.resend_api_key THEN Outcome(FALSE, FALSE, FALSE)
    ELSE Posted(resp, resp.status_code = 200)

\* _send_mailgun_email
_send_mailgun_email(env, resp) ==
    IF ~env.mailgun_api_key \/ ~env.mailgun_domain THEN Outcome(FALSE, FALSE, FALSE)
    ELSE Posted(resp, resp.status_code = 200)

\* _send_email_alert with the provider call outside any try
EmailNoTry(config, env, resp) ==
    IF config.email = "" THEN Outcome(FALSE, FALSE, FALSE)
    ELSE IF env.email_provider = "resend" THEN _send_resend_email(env, resp)
    ELSE _send_mailgun_email(env, resp)

\* _send_email_alert
_send_email_alert(config, env, resp) ==
    IF config.email = "" THEN Outcome(FALSE, FALSE, FALSE)
    ELSE TryExcept(IF env.email_provider = "resend"
                   THEN _send_resend_email(env, resp)
                   ELSE _send_mailgun_email(env, resp))

\* the POST made whatever the config holds
SlackUnchecked(config, resp) == TryExcept(Posted(resp, resp.status_code = 200))

\* _send_slack_alert
_send_slack_alert(config, resp) ==
    IF config.webhook_url = "" THEN Outcome(FALSE, FALSE, FALSE)
    ELSE TryExcept(Posted(resp, resp.status_code = 200))

\* _send_webhook_alert
_send_webhook_alert(config, resp) ==
    IF config.webhook_url = "" THEN Outcome(FALSE, FALSE, FALSE)
    ELSE TryExcept(Posted(resp, resp.status_code >= 200 /\ resp.status_code < 300))

\* no POST was made
NoPost == [raised |-> FALSE, status_code |-> -1]

\* one entry of results, with the channel it came from and what its POST did
Attempt(channel, outcome, resp) ==
    [channel_id |-> channel.id, called |-> outcome.called,
     result |-> outcome.result,
     post |-> IF outcome.called THEN resp ELSE NoPost]

\* any(results) in place of all(results)
AnyResult(results) == \E k \in 1..Len(results) : results[k].result

\* all(results)
AllResults(results) == \A k \in 1..Len(results) : results[k].result

\* The for-loop of send_alert over alert_channels[i..]; resps[id] is what the
\* POST for channel id does.  A type that matches no branch appends nothing;
\* an exception leaving a handler leaves the loop.
RECURSIVE ChannelLoop(_, _, _, _, _)
ChannelLoop(alert_channels, i, env, resps, results) ==
    IF i > Len(alert_channels) THEN [raised |-> FALSE, results |-> results]
    ELSE LET channel == alert_channels[i]
             resp == resps[channel.id]
             outcome ==
                 IF channel.type = "email"
                 THEN _send_email_alert(channel.config, env, resp)
                 ELSE IF channel.type = "slack"
                 THEN _send_slack_alert(channel.config, resp)
                 ELSE _send_webhook_alert(channel.config, resp)
         IN IF channel.type \notin {"email", "slack", "webhook"}
            THEN ChannelLoop(alert_channels, i + 1, env, resps, results)
            ELSE IF outcome.raised
            THEN [raised |-> TRUE, results |-> Append(results, Attempt(channel, outcome, resp))]
            ELSE ChannelLoop(alert_channels, i + 1, env, resps,
                     Append(results, Attempt(channel, outcome, resp)))

\* The active channels of project p, in table order
ActiveChannels(chans, p) ==
    SelectSeq(chans, LAMBDA c : c.project_id = p /\ c.active = TRUE)

\* send_alert answering False for every id
SendAlertLenient(anoms, chans, anomaly_id, env, resps) ==
    [raised |-> FALSE, result |-> FALSE, attempts |-> <<>>]

\* send_alert(anomaly_id) for an AlertSystem built under environment env.
\* The anomaly's project exists (foreign key), so only the anomaly lookup
\* can fail.
send_alert(anoms, chans, anomaly_id, env, resps) ==
    IF anomaly_id \notin 1..Len(anoms)
    THEN [raised |-> TRUE, result |-> FALSE, attempts |-> <<>>]
    ELSE LET alert_channels == ActiveChannels(chans, anoms[anomaly_id].project_id)
             loop == ChannelLoop(alert_channels, 1, env, resps, <<>>)
         IN IF alert_channels = <<>>
            THEN [raised |-> FALSE, result |-> FALSE, attempts |-> <<>>]
            ELSE IF loop.raised
            THEN [raised |-> TRUE, result |-> FALSE, attempts |-> loop.results]
            ELSE [raised |-> FALSE, result |-> AllResults(loop.results),
                  attempts |-> loop.results]

\* jobs/tasks.py send_anomaly_alert(anomaly_id): builds an AlertSystem, which
\* reads the environment, and awaits send_alert
SendAlert(anomaly_id, env, resps) ==
    /\ sendLog' = <<[anomaly_id |-> anomaly_id, env |-> env]
                      @@ send_alert(anomalies, channels, anomaly_id, env, resps)>>
    /\ UNCHANGED <<requests, anomalies, now, detectLog, sweep, claimed,
                   dispatched, channels, detectTasks,
                   ingestVars, sdkVars>>

----------------------------------------------------------------------------
(* api/ingest.py under concurrent calls: a call loads its project row when  *)
(* its dependencies are resolved and writes the row when its body commits   *)

\* ingest_api_requests calls that may be in progress at the same time
Handlers == {"h1", "h2"}

\* no call in progress
NoCall == [pc |-> "idle", project_id |-> "", request_count |-> 0]

\* the number of rows of api_requests that belong to project p
StoredCount(reqs, p) == SumN(SelectSeq(reqs, LAMBDA r : r.project_id = p))

\* every stored row was counted; no call is in progress
IngestIdle ==
    /\ project_table = [p \in Projects |-> StoredCount(requests, p)]
    /\ handlers = [h \in Handlers |-> NoCall]

\* project: Project = Depends(get_project_from_api_key): the call's session
\* loads the project row
IngestLoad(h, p) ==
    /\ handlers[h].pc = "idle"
    /\ handlers' = [handlers EXCEPT ![h] =
           [pc |-> "loaded", project_id |-> p, request_count |-> project_table[p]]]
    /\ UNCHANGED <<requests, anomalies, now, detectLog, sweep, claimed, dispatched,
                   channels, sendLog, detectTasks, project_table, sdkVars>>

\* the body of ingest_api_requests: db.add_all(api_requests);
\* project.request_count += len(api_requests); db.commit().  The += reads the
\* attribute of the loaded object, and the UPDATE writes the sum.
IngestCommit(h, method, path, status_code, ip, country_code, n) ==
    /\ handlers[h].pc = "loaded"
    /\ Len(requests) < MaxBatches
    /\ LET p == handlers[h].project_id
       IN /\ requests' = Append(requests,
                 ApiRequest(p, method, path, status_code, ip, country_code, now, n))
          /\ project_table' = [project_table EXCEPT ![p] = handlers[h].request_count + n]
    /\ handlers' = [handlers EXCEPT ![h] = NoCall]
    /\ UNCHANGED <<anomalies, now, detectLog, sweep, claimed, dispatched,
                   channels, sendLog, detectTasks, sdkVars>>

----------------------------------------------------------------------------
(* sdk-python/apisentinel/core.py: SentinelCore.  Request logs are numbered *)
(* in the order they are appended to request_queue.                         *)

\* threads of the application that call capture_request
CaptureThreads == {"c1", "c2"}

\* threads started by threading.Timer, each running _send_batch
TimerThreads == {"t1", "t2"}

SdkThreads == CaptureThreads \cup TimerThreads

\* queue_lock is not held
Free == "none"

\* a thread outside the SDK's code
Resting == [pc |-> "idle", batch |-> <<>>]

\* SentinelCore.__init__
SdkFresh(size) ==
    /\ batch_size = size
    /\ request_queue = <<>>
    /\ queue_lock = Free
    /\ timer = FALSE
    /\ threads = [t \in SdkThreads |-> Resting]
    /\ captured = 0
    /\ delivered = <<>>

\* capture_request is called for a path that is not ignored; the request log
\* is built, the thread comes to `with self.queue_lock`
CaptureCall(t) ==
    /\ threads[t].pc = "idle"
    /\ captured + Cardinality({u \in CaptureThreads : threads[u].pc = "append"}) < MaxLogs
    /\ threads' = [threads EXCEPT ![t].pc = "append"]
    /\ UNCHANGED <<requests, anomalies, now, detectLog, sweep, claimed, dispatched,
                   channels, sendLog, detectTasks, ingestVars, batch_size,
                   request_queue, queue_lock, timer, captured, delivered>>

\* the block under queue_lock in capture_request: the log is appended; with
\* the queue full the thread calls _send_batch and comes to its
\* `with self.queue_lock` while it holds the lock; otherwise _start_timer
\* cancels the timer, starts a new one, and the lock is released
CaptureAppend(t) ==
    /\ threads[t].pc = "append"
    /\ queue_lock = Free
    /\ request_queue' = Append(request_queue, captured + 1)
    /\ captured' = captured + 1
    /\ IF Len(request_queue) + 1 >= batch_size
       THEN /\ queue_lock' = t
            /\ threads' = [threads EXCEPT ![t].pc = "take"]
            /\ timer' = timer
       ELSE /\ queue_lock' = Free
            /\ threads' = [threads EXCEPT ![t].pc = "idle"]
            /\ timer' = TRUE
    /\ UNCHANGED <<requests, anomalies, now, detectLog, sweep, claimed, dispatched,
                   channels, sendLog, detectTasks, ingestVars, batch_size, delivered>>

\* the timer's interval passes: its thread starts _send_batch and comes to
\* `with self.queue_lock`
TimerFire(t) ==
    /\ timer = TRUE
    /\ threads[t].pc = "idle"
    /\ timer' = FALSE
    /\ threads' = [threads EXCEPT ![t].pc = "take"]
    /\ UNCHANGED <<requests, anomalies, now, detectLog, sweep, claimed, dispatched,
                   channels, sendLog, detectTasks, ingestVars, batch_size,
                   request_queue, queue_lock, captured, delivered>>

\* the first block under queue_lock in _send_batch: return on an empty queue,
\* otherwise batch = self.request_queue.copy(); self.request_queue = []
SendBatchTake(t) ==
    /\ threads[t].pc = "take"
    /\ queue_lock = Free
    /\ IF request_queue = <<>>
       THEN /\ threads' = [threads EXCEPT ![t] = Resting]
            /\ request_queue' = request_queue
       ELSE /\ threads' = [threads EXCEPT ![t] = [pc |-> "post", batch |-> request_queue]]
            /\ request_queue' = <<>>
    /\ UNCHANGED <<requests, anomalies, now, detectLog, sweep, claimed, dispatched,
                   channels, sendLog, detectTasks, ingestVars, batch_size,
                   queue_lock, timer, captured, delivered>>

\* requests.post(...): the backend answers status_code, or the call raises
\* (status_code = -1)
SendBatchPost(t, status_code) ==
    /\ threads[t].pc = "post"
    /\ IF status_code = created
       THEN /\ delivered' = Append(delivered, threads[t].batch)
            /\ threads' = [threads EXCEPT ![t] = Resting]
       ELSE /\ delivered' = delivered
            /\ threads' = [threads EXCEPT ![t].pc = "put_back"]
    /\ UNCHANGED <<requests, anomalies, now, detectLog, sweep, claimed, dispatched,
                   channels, sendLog, detectTasks, ingestVars, batch_size,
                   request_queue, queue_lock, timer, captured>>

\* the batch appended to what has been captured since
PutBackBehind(batch, queue) == queue \o batch

\* batch + self.request_queue
PutBack(batch, queue) == batch \o queue

\* with self.queue_lock: self.request_queue = batch + self.request_queue
SendBatchPutBack(t) ==
    /\ threads[t].pc = "put_back"
    /\ queue_lock = Free
    /\ request_queue' = PutBack(threads[t].batch, request_queue)
    /\ threads' = [threads EXCEPT ![t] = Resting]
    /\ UNCHANGED <<requests, anomalies, now, detectLog, sweep, claimed, dispatched,
                   channels, sendLog, detectTasks, ingestVars, batch_size,
                   queue_lock, timer, captured, delivered>>

----------------------------------------------------------------------------
(* Event logs the ingest endpoint can have built: at most MaxBatches        *)
(* batches in insertion order, so with created_at never decreasing.         *)

EventLogs(shapes, times) ==
    UNION {
        {[i \in 1..k |-> [s[i][1] EXCEPT !.created_at = s[i][2]]] :
            s \in {c \in [1..k -> shapes \X times] :
                      \A i \in 1..(k - 1) : c[i][2] <= c[i + 1][2]}}
        : k \in 0..MaxBatches}

\* No sweep running, nothing claimed, nothing sent
Quiet ==
    /\ sweep = [s \in Sweeps |-> Idle]
    /\ claimed = <<>>
    /\ dispatched = <<>>
    /\ sendLog = <<>>

InitWith(logs, t) ==
    /\ requests \in logs
    /\ anomalies = <<>>
    /\ now = t
    /\ detectLog = <<>>
    /\ channels = <<>>
    /\ detectTasks = <<>>
    /\ IngestIdle
    /\ SdkFresh(default_batch_size)
    /\ Quiet

\* A detect call for project P1 during which the clock may move on
DetectP1 == Detect("P1", ClockReadings(now))

\* A detect call for project P1 that is over within the minute it starts in
DetectP1Fast == Detect("P1", {[k \in 1..4 |-> now]})

----------------------------------------------------------------------------
(* Detection of new endpoints: events that differ in method, path, count    *)
(* and age.  ingest accepts any string as method and as path.               *)

Methods == {"G", "G:"}
Paths == {"x", ":x"}

EndpointShapes ==
    {ApiRequest("P1", m, path, 200, "ip1", "US", 0, n) :
        m \in Methods, path \in Paths, n \in {1, 5}}

\* before the window, at its first minute, at its last minute
EndpointTimes == {0, 1, 1 + endpoint_window}

InitEndpoint == InitWith(EventLogs(EndpointShapes, EndpointTimes), 1 + endpoint_window)

NextEndpoint == DetectP1

EndpointSpec == InitEndpoint /\ [][NextEndpoint]_vars

\* What a run's new-endpoint scanner saw, stated from the event log
Runs == Range(detectLog)
RowsOf(run) == {r \in Range(run.requests) : r.project_id = run.project_id}
PairsInWindow(run) ==
    {<<r.method, r.path>> : r \in
        {q \in RowsOf(run) : q.created_at >= run.ts[1] - 60}}
PairsBefore(run) ==
    {<<r.method, r.path>> : r \in
        {q \in RowsOf(run) : q.created_at < run.ts[1] - 60}}
NewEndpointIdx(run, pair) ==
    {k \in 1..Len(run.out) : /\ run.out[k].type = "new_endpoint"
                             /\ run.out[k].message.method = pair[1]
                             /\ run.out[k].message.path = pair[2]
                             /\ run.out[k].endpoint_path = pair[2]}
Flagged(run) == {pair \in Methods \X Paths : NewEndpointIdx(run, pair) /= {}}

\* C4: when detect runs twice on the same project with the same window
\* contents and the same history, the second run reports no pair as
\* NewEndpoint that the first run already reported.
C4_Idempotent ==
    \A i \in 1..(Len(detectLog) - 1) :
        LET first == detectLog[i]
            second == detectLog[i + 1]
        IN (/\ first.project_id = second.project_id
            /\ first.requests = second.requests
            /\ PairsInWindow(first) = PairsInWindow(second)
            /\ PairsBefore(first) = PairsBefore(second))
           => Flagged(second) \cap Flagged(first) = {}

\* C5: one detect call reports exactly one NewEndpoint anomaly, of severity
\* low, for every pair with an event inside the window and none before it,
\* and none for any other pair.
C5_OnePerNewPair ==
    \A run \in Runs : \A pair \in Methods \X Paths :
        LET idx == NewEndpointIdx(run, pair)
        IN IF pair \in PairsInWindow(run) \ PairsBefore(run)
           THEN /\ Cardinality(idx) = 1
                /\ \A k \in idx : run.out[k].severity = "low"
           ELSE idx = {}

----------------------------------------------------------------------------
(* Rate-limit detection: events that differ in client IP, count and age *)

Ips == {"ip1", "ip2"}

RateShapes ==
    {ApiRequest("P1", "G", "x", 200, ip, "US", 0, n) :
        ip \in Ips, n \in {1, request_threshold, 2 * request_threshold}}

\* before the window, at its first minute, at its last minute
RateTimes == {0, 1, 1 + rate_window}

InitRate == InitWith(EventLogs(RateShapes, RateTimes), 1 + rate_window)

NextRate == DetectP1

RateSpec == InitRate /\ [][NextRate]_vars

RECURSIVE IpCountFrom(_, _, _)
\* the number of rows of the run's log from position i on that are of the
\* run's project and of ip and lie in the last minute before its reading
IpCountFrom(run, ip, i) ==
    IF i > Len(run.requests) THEN 0
    ELSE LET r == run.requests[i]
         IN (IF /\ r.project_id = run.project_id
                /\ r.ip = ip
                /\ r.created_at >= run.ts[2] - 1
             THEN r.n ELSE 0) + IpCountFrom(run, ip, i + 1)

IpCount(run, ip) == IpCountFrom(run, ip, 1)

RateIdx(run, ip) ==
    {k \in 1..Len(run.out) : run.out[k].type = "rate_limit" /\ run.out[k].ip = ip}

\* C6: an IP with c events in the trailing minute gets no RateLimit anomaly
\* when c <= 100, exactly one of severity medium when 100 < c <= 200, and
\* exactly one of severity high when c > 200.
C6_RateClasses ==
    \A run \in Runs : \A ip \in Ips :
        LET c == IpCount(run, ip)
            idx == RateIdx(run, ip)
        IN /\ c <= 100 => idx = {}
           /\ (100 < c /\ c <= 200) =>
                 Cardinality(idx) = 1 /\ \A k \in idx : run.out[k].severity = "medium"
           /\ c > 200 =>
                 Cardinality(idx) = 1 /\ \A k \in idx : run.out[k].severity = "high"

\* one run sees 100 events of one IP (none) and 200 of the other (medium)
C6_Witness ==
    \E run \in Runs :
        /\ IpCount(run, "ip1") = 100 /\ RateIdx(run, "ip1") = {}
        /\ IpCount(run, "ip2") = 200
        /\ \E k \in RateIdx(run, "ip2") : run.out[k].severity = "medium"

----------------------------------------------------------------------------
(* Error-spike detection: events of one endpoint that differ in status,     *)
(* count and age                                                            *)

ErrorShapes ==
    {ApiRequest("P1", "G", "x", status_code, "ip1", "US", 0, n) :
        status_code \in {200, server_error}, n \in {1, 2, 5, 7, 8, 9}}

\* the first minute of the window (before it when the clock moves on), inside it
ErrorTimes == {0, 1}

InitError == InitWith(EventLogs(ErrorShapes, ErrorTimes), error_window)

NextError == DetectP1

ErrorSpec == InitError /\ [][NextError]_vars

RECURSIVE GroupCountFrom(_, _, _, _)
\* the number of rows of the run's log from position i on that are of the
\* run's project and of the pair, lie in the last 5 minutes before its
\* reading and have a status of at least min_status
GroupCountFrom(run, pair, min_status, i) ==
    IF i > Len(run.requests) THEN 0
    ELSE LET r == run.requests[i]
         IN (IF /\ r.project_id = run.project_id
                /\ r.method = pair[1] /\ r.path = pair[2]
                /\ r.created_at >= run.ts[3] - 5
                /\ r.status_code >= min_status
             THEN r.n ELSE 0) + GroupCountFrom(run, pair, min_status, i + 1)

GroupTotal(run, pair) == GroupCountFrom(run, pair, 0, 1)
GroupErrors(run, pair) == GroupCountFrom(run, pair, 500, 1)

SpikeIdx(run, pair) ==
    {k \in 1..Len(run.out) : /\ run.out[k].type = "error_spike"
                             /\ run.out[k].message.method = pair[1]
                             /\ run.out[k].message.path = pair[2]}

ErrorPairs == {<<"G", "x">>}

\* C7: a group with fewer than 10 requests in the trailing 5 minutes gets no
\* ErrorSpike anomaly whatever its error rate; a group of exactly 10 is
\* evaluated (reported when at least 20% of them are errors).
C7_MinimumSample ==
    \A run \in Runs : \A pair \in ErrorPairs :
        LET total == GroupTotal(run, pair)
            e == GroupErrors(run, pair)
        IN /\ total < 10 => SpikeIdx(run, pair) = {}
           /\ (total = 10 /\ 5 * e >= total) => SpikeIdx(run, pair) /= {}

\* nine requests, all of them errors, and nothing reported
C7_Witness ==
    \E run \in Runs : \E pair \in ErrorPairs :
        /\ GroupTotal(run, pair) = 9
        /\ GroupErrors(run, pair) = 9
        /\ SpikeIdx(run, pair) = {}

\* C8: a group with total >= 10 and e errors gets no ErrorSpike anomaly when
\* e/total < 20%, exactly one of severity medium when 20% <= e/total < 50%,
\* and exactly one of severity high when e/total >= 50%.
C8_ErrorClasses ==
    \A run \in Runs : \A pair \in ErrorPairs :
        LET total == GroupTotal(run, pair)
            e == GroupErrors(run, pair)
            idx == SpikeIdx(run, pair)
        IN total >= 10 =>
            /\ 5 * e < total => idx = {}
            /\ (5 * e >= total /\ 2 * e < total) =>
                  Cardinality(idx) = 1 /\ \A k \in idx : run.out[k].severity = "medium"
            /\ 2 * e >= total =>
                  Cardinality(idx) = 1 /\ \A k \in idx : run.out[k].severity = "high"

\* ten requests with two errors: exactly 20%, reported as medium
C8_Witness ==
    \E run \in Runs : \E pair \in ErrorPairs :
        /\ GroupTotal(run, pair) = 10
        /\ GroupErrors(run, pair) = 2
        /\ \E k \in SpikeIdx(run, pair) : run.out[k].severity = "medium"

----------------------------------------------------------------------------
(* The scheduler: ingest, detection and alert sweeps of one project, with   *)
(* sweep instances that may overlap                                         *)

SchedulerShapes == {ApiRequest("P1", "G", "x", 200, "ip1", "US", 0, 1)}

Init == InitWith(EventLogs(SchedulerShapes, {0}), 0)

TickHour == Tick(endpoint_window)

Next ==
    \/ TickHour
    \/ DetectP1Fast
    \/ \E s \in Sweeps : SweepQuery(s)
    \/ \E s \in Sweeps : SweepCommit(s)
    \/ \E s \in Sweeps : SweepDispatch(s)
    \/ \E s \in Sweeps : Crash(s)

Spec == Init /\ [][Next]_vars

\* Some sweep instance is running
Busy == \E s \in Sweeps : sweep[s].pc /= "idle"

\* A sweep starts only when no other instance is running
SweepQueryAlone(s) == ~Busy /\ SweepQuery(s)

NextSeq ==
    \/ TickHour
    \/ DetectP1Fast
    \/ \E s \in Sweeps : SweepQueryAlone(s)
    \/ \E s \in Sweeps : SweepCommit(s)
    \/ \E s \in Sweeps : SweepDispatch(s)
    \/ \E s \in Sweeps : Crash(s)

SeqSpec == Init /\ [][NextSeq]_vars

AnomalyIds == 1..Len(anomalies)

\* C1: when sweeps overlap on an unprocessed anomaly, exactly one of them
\* claims it and dispatch is invoked for it exactly once: never do two
\* instances commit the mark of one anomaly, never is it dispatched twice.
C1_ClaimExclusive ==
    \A id \in AnomalyIds :
        /\ Cardinality(claimed[id]) <= 1
        /\ dispatched[id] <= 1

\* C2: dispatch is invoked for an anomaly only when its stored processed
\* flag is already true.
C2_ClaimBeforeDispatch ==
    [][\A id \in AnomalyIds :
          dispatched'[id] > dispatched[id] => anomalies[id].processed]_vars

\* an anomaly has been dispatched
C2_Witness == \E id \in AnomalyIds : dispatched[id] > 0

\* C3: with sweeps that do not overlap, crashes and restarts included,
\* dispatch is invoked at most once for any anomaly.
C3_AtMostOnce == \A id \in AnomalyIds : dispatched[id] <= 1

\* a sweep that started after one anomaly was dispatched works on another
C3_Witness ==
    \E s \in Sweeps : \E id \in AnomalyIds :
        /\ sweep[s].pc /= "idle"
        /\ dispatched[id] = 1
        /\ anomalies[id].processed
        /\ id \notin Range(sweep[s].todo)

----------------------------------------------------------------------------
(* Dispatch of one anomaly to the channels of the registry: tables of at   *)
(* most MaxChannels rows of the declared kinds, any environment, any        *)
(* behaviour of the sinks                                                   *)

\* core/schemas.py AlertChannelType
ChannelTypes == {"email", "slack", "webhook"}

NoConfig == [email |-> "", webhook_url |-> ""]

\* the config a channel of this type needs, or an empty one
Configs(type) ==
    {NoConfig,
     IF type = "email" THEN [NoConfig EXCEPT !.email = "ops@example.com"]
     ELSE [NoConfig EXCEPT !.webhook_url = "https://sink.example.com/hook"]}

ChannelShapes ==
    UNION {{AlertChannel(0, p, type, config, active) :
                p \in Projects, config \in Configs(type), active \in BOOLEAN}
           : type \in ChannelTypes}

ChannelTables ==
    UNION {{[i \in 1..k |-> [c[i] EXCEPT !.id = i]] : c \in [1..k -> ChannelShapes]}
           : k \in 0..MaxChannels}

\* EMAIL_PROVIDER, RESEND_API_KEY, MAILGUN_API_KEY, MAILGUN_DOMAIN
Envs ==
    {[email_provider |-> "resend", resend_api_key |-> TRUE,
      mailgun_api_key |-> FALSE, mailgun_domain |-> FALSE],
     [email_provider |-> "resend", resend_api_key |-> FALSE,
      mailgun_api_key |-> TRUE, mailgun_domain |-> TRUE],
     [email_provider |-> "mailgun", resend_api_key |-> FALSE,
      mailgun_api_key |-> TRUE, mailgun_domain |-> TRUE],
     [email_provider |-> "mailgun", resend_api_key |-> TRUE,
      mailgun_api_key |-> TRUE, mailgun_domain |-> FALSE]}

Responses == {Response(200), Response(204), Response(500), PostRaised}

\* The anomaly raised for P1's first event has been claimed and queued by
\* sweep s1
InitDispatch ==
    /\ requests = <<ApiRequest("P1", "G", "x", 200, "ip1", "US", 0, 1)>>
    /\ anomalies = MarkProcessed(
           AddAll(<<>>, DetectResult(requests, "P1", [k \in 1..4 |-> 0]), 0), 1)
    /\ now = 0
    /\ detectLog = <<>>
    /\ sweep = [s \in Sweeps |-> Idle]
    /\ claimed = <<{"s1"}>>
    /\ dispatched = <<1>>
    /\ channels \in ChannelTables
    /\ sendLog = <<>>
    /\ detectTasks = <<>>
    /\ IngestIdle
    /\ SdkFresh(default_batch_size)

\* the channels send_alert reaches for this id: the sinks whose behaviour matters
Reached(anomaly_id) ==
    IF anomaly_id \in AnomalyIds
    THEN {c.id : c \in Range(ActiveChannels(channels, anomalies[anomaly_id].project_id))}
    ELSE {}

\* the task runs for a stored anomaly or for an id that is not in the table
SendAnomalyAlert ==
    \E anomaly_id \in 1..(Len(anomalies) + 1) : \E env \in Envs :
        \E resps \in [Reached(anomaly_id) -> Responses] :
            SendAlert(anomaly_id, env, resps)

NextDispatch == SendAnomalyAlert

DispatchSpec == InitDispatch /\ [][NextDispatch]_vars

\* The send_alert calls that found their anomaly and returned
Returned == {call \in Range(sendLog) : call.anomaly_id \in AnomalyIds /\ ~call.raised}

\* the registry's active channels of the project of the call's anomaly
ActiveOf(call) ==
    {c \in Range(channels) :
        c.active /\ c.project_id = anomalies[call.anomaly_id].project_id}

\* the result recorded for channel c in the call
ResultOf(call, c) ==
    \E j \in 1..Len(call.attempts) :
        call.attempts[j].channel_id = c.id /\ call.attempts[j].result

Deliverable(c, env) ==
    IF c.type = "email"
    THEN /\ c.config.email /= ""
         /\ IF env.email_provider = "resend" THEN env.resend_api_key
            ELSE env.mailgun_api_key /\ env.mailgun_domain
    ELSE c.config.webhook_url /= ""

C11_ErrorsNeverPropagate ==
    \A call \in Range(sendLog) :
        call.anomaly_id \in AnomalyIds =>
            /\ ~call.raised
            /\ call.result \in BOOLEAN
            /\ \A j \in 1..Len(call.attempts) :
                  call.attempts[j].post.raised => call.attempts[j].result = FALSE

\* the POSTs of an email channel and of a second channel both raised, and the
\* call returned false
C11_Witness ==
    \E call \in Returned :
        /\ Len(call.attempts) = 2
        /\ channels[call.attempts[1].channel_id].type = "email"
        /\ \A j \in 1..2 : call.attempts[j].post.raised /\ ~call.attempts[j].result
        /\ call.result = FALSE

\* C12: an attempt on a Slack or a Webhook channel whose POST was answered
\* counts as succeeded exactly when the status is in 200..299.
C12_TwoXXCriterion ==
    \A call \in Range(sendLog) : \A j \in 1..Len(call.attempts) :
        LET a == call.attempts[j]
        IN (/\ channels[a.channel_id].type \in {"slack", "webhook"}
            /\ a.called
            /\ ~a.post.raised)
           => (a.result = (a.post.status_code >= 200 /\ a.post.status_code <= 299))

----------------------------------------------------------------------------
(* The life of an anomaly: detection, overlapping alert sweeps and the      *)
(* resolve endpoint, all within one minute                                  *)

ResolveAny == \E anomaly_id \in 1..(Len(anomalies) + 1) : Resolve(anomaly_id)

NextLife ==
    \/ DetectP1Fast
    \/ \E s \in Sweeps : SweepQuery(s)
    \/ \E s \in Sweeps : SweepCommit(s)
    \/ \E s \in Sweeps : SweepDispatch(s)
    \/ \E s \in Sweeps : Crash(s)
    \/ ResolveAny

\* one event of project P1 has been ingested
InitLife == InitWith({<<e>> : e \in SchedulerShapes}, 0)

LifeSpec == InitLife /\ [][NextLife]_vars

\* C13: no step takes the processed flag of a stored anomaly from true back
\* to false, so the flag changes at most once, from false to true.
C13_ProcessedMonotone ==
    [][\A id \in AnomalyIds :
          anomalies[id].processed => anomalies'[id].processed]_vars

\* an anomaly that a sweep marked and that was resolved afterwards by the
\* endpoint while a second sweep instance handles it
C13_Witness ==
    \E id \in AnomalyIds :
        /\ anomalies[id].processed
        /\ anomalies[id].resolved
        /\ Cardinality(claimed[id]) = 2

\* The same over hours, with alert sweeps that do not overlap
NextResolve ==
    \/ TickHour
    \/ DetectP1Fast
    \/ \E s \in Sweeps : SweepQueryAlone(s)
    \/ \E s \in Sweeps : SweepCommit(s)
    \/ \E s \in Sweeps : SweepDispatch(s)
    \/ \E s \in Sweeps : Crash(s)
    \/ ResolveAny

ResolveSpec == InitLife /\ [][NextResolve]_vars

\* C14: every stored anomaly has resolved_at set exactly when resolved is true.
C14_ResolvedAtIffResolved ==
    \A id \in AnomalyIds :
        (anomalies[id].resolved_at /= -1) <=> (anomalies[id].resolved = TRUE)

\* a processed anomaly that was resolved an hour or more after its creation
C14_Witness ==
    \E id \in AnomalyIds :
        /\ anomalies[id].resolved
        /\ anomalies[id].processed
        /\ anomalies[id].resolved_at > anomalies[id].created_at

----------------------------------------------------------------------------
(* Detection with a store that may fail under one scanner: events of new    *)
(* endpoints, some from a listed country                                    *)

FaultShapes ==
    {ApiRequest("P1", "G", path, 200, ip, cc, 0, 1) :
        path \in {"x", "y"}, ip \in Ips, cc \in {"US", "KP"}}

InitFault == InitWith(EventLogs(FaultShapes, {0, 1}), 1)

DetectP1Raises == \E k \in 1..4 : DetectRaises("P1", {[j \in 1..4 |-> now]}, k)

NextFault == DetectP1Fast \/ DetectP1Raises

FaultSpec == InitFault /\ [][NextFault]_vars

\* what the k-th scanner finds in the run's store at the run's clock value
ScannerResult(run, k) ==
    IF k = 1 THEN _detect_new_endpoints(run.requests, run.project_id, run.ts[1])
    ELSE IF k = 2 THEN _detect_rate_limit_violations(run.requests, run.project_id, run.ts[2])
    ELSE IF k = 3 THEN _detect_error_spikes(run.requests, run.project_id, run.ts[3])
    ELSE _detect_suspicious_locations(run.requests, run.project_id, run.ts[4])

\* the results of the scanners of the run that did not fail, in call order
RECURSIVE SurvivorsFrom(_, _)
SurvivorsFrom(run, k) ==
    IF k > 4 THEN <<>>
    ELSE (IF k = run.failed THEN <<>> ELSE ScannerResult(run, k))
             \o SurvivorsFrom(run, k + 1)

\* C15: when one scanner of a detect call fails, what the other three find
\* is returned by the call and stored.
C15_ScannerIsolation ==
    \A i \in 1..Len(detectLog) :
        LET run == detectLog[i]
            found == SurvivorsFrom(run, 1)
        IN run.failed /= 0 =>
            /\ run.out = found
            /\ \A k \in 1..Len(found) :
                  \E id \in AnomalyIds :
                      /\ id > run.first
                      /\ anomalies[id].type = found[k].type
                      /\ anomalies[id].message = found[k].message

\* C16: a sweep that has invoked dispatch for an anomaly goes on to claim the
\* next anomaly of its query result, also when the invocation ended with an
\* error: it never stops while anomalies of its result are left.
C16_LoopIsolation ==
    [][\A s \in Sweeps :
          (/\ sweep[s].pc = "send"
           /\ sweep'[s] /= sweep[s]
           /\ dispatched' /= dispatched
           /\ sweep[s].i < Len(sweep[s].todo))
          => (sweep'[s].pc = "mark" /\ sweep'[s].i = sweep[s].i + 1)]_vars

----------------------------------------------------------------------------
(* Detection sweeps over the projects, with workers that take the tasks in  *)
(* any order and a store that may fail under a scanner                      *)

SweepShapes ==
    {ApiRequest(p, "G", "x", 200, "ip1", cc, 0, 1) :
        p \in Projects, cc \in {"US", "KP"}}

InitSweep == InitWith(EventLogs(SweepShapes, {0}), 0)

NextSweep ==
    \/ ScheduleDetection
    \/ \E i \in 1..Len(detectTasks) : RunDetect(i)
    \/ \E i \in 1..Len(detectTasks) : \E k \in {1, 4} : RunDetectRaises(i, k)

SweepSpec == InitSweep /\ [][NextSweep]_vars

\* the tasks of the n-th detection sweep for project p
TasksOf(n, p) ==
    {i \in 1..Len(detectTasks) :
        detectTasks[i].sweep = n /\ detectTasks[i].project_id = p}

\* the runs of detect_anomalies for project p that ended, and how
RunsOf(p, failed) ==
    {i \in 1..Len(detectLog) :
        detectLog[i].project_id = p /\ (detectLog[i].failed /= 0) = failed}

C18_ConsistentWindow ==
    \A run \in Runs :
        run.failed = 0 =>
            run.out = DetectResult(run.requests, run.project_id,
                                   [k \in 1..4 |-> run.ts[1]])

\* the number of rows of the anomaly store when the i-th run had ended
RowsAfter(i) ==
    IF i < Len(detectLog) THEN detectLog[i + 1].first ELSE Len(anomalies)

\* C19: a detect call that returns normally returns the four scanners'
\* results one after the other, and the rows it added to the anomaly store
\* are exactly the anomalies it returned: none when it returned none.
C19_PersistsWhatItReturns ==
    \A i \in 1..Len(detectLog) :
        LET run == detectLog[i]
        IN run.failed = 0 =>
            /\ run.out = ScannerResult(run, 1) \o ScannerResult(run, 2)
                             \o ScannerResult(run, 3) \o ScannerResult(run, 4)
            /\ RowsAfter(i) = run.first + Len(run.out)
            /\ \A k \in 1..Len(run.out) :
                  anomalies[run.first + k] =
                      AnomalyRow(run.out[k], run.first + k, run.ts[4])

\* after a call that failed, a call returned a new endpoint and a suspicious
\* location, now the only rows of the store
C19_Witness ==
    \E i \in 2..Len(detectLog) :
        /\ detectLog[i - 1].failed /= 0
        /\ detectLog[i].failed = 0
        /\ detectLog[i].first = 0
        /\ Len(anomalies) = Len(detectLog[i].out)
        /\ \E k, l \in 1..Len(detectLog[i].out) :
              /\ anomalies[k].type = "new_endpoint"
              /\ anomalies[l].type = "suspicious_location"

\* C20: a send_alert call for an id that is not in the anomaly store ends
\* with the not-found error, has attempted no delivery and has changed no
\* table.
C20_MissingAnomaly ==
    [][\A call \in Range(sendLog') :
          call.anomaly_id \notin AnomalyIds =>
              /\ call.raised
              /\ call.attempts = <<>>
              /\ UNCHANGED <<requests, anomalies, channels>>]_vars

\* the call for a missing id has raised although the registry holds an
\* active, deliverable channel
C20_Witness ==
    \E call \in Range(sendLog) :
        /\ call.anomaly_id \notin AnomalyIds
        /\ call.raised
        /\ \E c \in Range(channels) : c.active /\ Deliverable(c, call.env)

\* the anomalies a sweep starting now is to handle
Selectable ==
    {id \in AnomalyIds :
        /\ anomalies[id].processed = FALSE
        /\ anomalies[id].created_at >= now - 60}

\* C21: a sweep takes as its work exactly the anomalies that are unprocessed
\* and at most one hour old at query time; while it runs it modifies and
\* dispatches none but these; and it does not stop after a dispatch while
\* one of them is left.
C21_SweepSelection ==
    [][\A s \in Sweeps :
          /\ (sweep[s].pc = "idle" /\ sweep'[s].pc /= "idle")
                => Range(sweep'[s].todo) = Selectable
          /\ (sweep[s].pc /= "idle" /\ sweep'[s] /= sweep[s])
                => \A id \in AnomalyIds :
                      (anomalies'[id] /= anomalies[id] \/ dispatched'[id] /= dispatched[id])
                          => id \in Range(sweep[s].todo)
          /\ (/\ sweep[s].pc = "send"
              /\ sweep'[s] /= sweep[s]
              /\ dispatched' /= dispatched
              /\ sweep[s].i < Len(sweep[s].todo))
                => sweep'[s].pc = "mark"]_vars

----------------------------------------------------------------------------
(* Detection of suspicious locations: events that differ in client IP,      *)
(* country, count and age                                                   *)

LocationShapes ==
    {ApiRequest("P1", "G", "x", 200, ip, cc, 0, n) :
        ip \in Ips, cc \in {"US", "KP"}, n \in {1, 3}}

\* before the window, at its first minute, at its last minute
LocationTimes == {0, 1, 1 + location_window}

InitLocation ==
    InitWith(EventLogs(LocationShapes, LocationTimes), 1 + location_window)

NextLocation == DetectP1

LocationSpec == InitLocation /\ [][NextLocation]_vars

\* the events of ip from a listed country in the run's 24-hour window
ListedEvents(run, ip) ==
    {i \in 1..Len(run.requests) :
        /\ run.requests[i].project_id = run.project_id
        /\ run.requests[i].ip = ip
        /\ run.requests[i].country_code \in {"KP", "IR", "SY", "CU"}
        /\ run.requests[i].created_at >= run.ts[4] - 1440}

LocationIdx(run, ip) ==
    {k \in 1..Len(run.out) :
        run.out[k].type = "suspicious_location" /\ run.out[k].ip = ip}

\* C22: a detect call reports exactly one SuspiciousLocation anomaly, of
\* severity high, for every client IP with an event from a listed country in
\* the last 24 hours, and none for any other IP.
C22_SuspiciousLocation ==
    \A run \in Runs : \A ip \in Ips :
        run.failed = 0 =>
            IF ListedEvents(run, ip) /= {}
            THEN /\ Cardinality(LocationIdx(run, ip)) = 1
                 /\ \A k \in LocationIdx(run, ip) : run.out[k].severity = "high"
            ELSE LocationIdx(run, ip) = {}

\* ip1 has two batches of listed events in the window and is reported once;
\* ip2 has none and is not reported
C22_Witness ==
    \E run \in Runs :
        /\ Cardinality(ListedEvents(run, "ip1")) = 2
        /\ Cardinality(LocationIdx(run, "ip1")) = 1
        /\ ListedEvents(run, "ip2") = {}
        /\ LocationIdx(run, "ip2") = {}

\* the anomaly is marked processed, dispatch was never invoked for it, and no
\* running sweep instance has it in its query result: the instance that
\* marked it is gone
Dropped(id) ==
    /\ anomalies[id].processed
    /\ dispatched[id] = 0
    /\ \A s \in Sweeps :
          sweep[s].pc = "idle" \/ id \notin Range(sweep[s].todo)

\* C23: an anomaly whose sweep died between the commit of its mark and the
\* dispatch invocation stays undispatched: no sweep that starts later takes
\* it up.
C23_DroppedOnCrash ==
    [][\A id \in AnomalyIds : Dropped(id) => Dropped(id)']_vars

\* a sweep that started after the crash works on another anomaly
C23_Witness ==
    \E id \in AnomalyIds : \E s \in Sweeps :
        /\ Dropped(id)
        /\ sweep[s].pc = "send"
        /\ anomalies[id].created_at >= now - 60

----------------------------------------------------------------------------
(* Who writes which column of anomalies: detection, overlapping alert       *)
(* sweeps, the queued send_anomaly_alert tasks and the resolve endpoint,    *)
(* for a project with one active webhook channel                            *)

\* the environment of the deployment's workers
WorkerEnv == CHOOSE env \in Envs : env.email_provider = "resend" /\ env.resend_api_key

InitOwner ==
    /\ requests \in {<<e>> : e \in SchedulerShapes}
    /\ anomalies = <<>>
    /\ now = 0
    /\ detectLog = <<>>
    /\ channels = <<AlertChannel(1, "P1", "webhook",
                        [NoConfig EXCEPT !.webhook_url = "https://sink.example.com/hook"],
                        TRUE)>>
    /\ detectTasks = <<>>
    /\ IngestIdle
    /\ SdkFresh(default_batch_size)
    /\ Quiet

\* a worker runs a send_anomaly_alert task that a sweep has queued
SendQueued ==
    \E anomaly_id \in AnomalyIds :
        /\ dispatched[anomaly_id] > 0
        /\ \E resps \in [Reached(anomaly_id) -> Responses] :
              SendAlert(anomaly_id, WorkerEnv, resps)

NextOwner == NextLife \/ SendQueued

OwnerSpec == InitOwner /\ [][NextOwner]_vars

\* row with the named columns taken from old
WithProcessed(row, old) == [row EXCEPT !.processed = old.processed]
WithResolution(row, old) ==
    [row EXCEPT !.resolved = old.resolved, !.resolved_at = old.resolved_at]

\* C24: a send_alert call changes no anomaly row; a detect call changes no
\* existing row; a sweep step changes at most the processed column; a
\* resolve call changes at most resolved and resolved_at.
C24_FieldOwnership ==
    [][/\ Len(anomalies') >= Len(anomalies)
       /\ sendLog' /= sendLog => anomalies' = anomalies
       /\ detectLog' /= detectLog =>
              \A id \in AnomalyIds : anomalies'[id] = anomalies[id]
       /\ sweep' /= sweep =>
              /\ Len(anomalies') = Len(anomalies)
              /\ \A id \in AnomalyIds :
                    WithProcessed(anomalies'[id], anomalies[id]) = anomalies[id]
       /\ (sendLog' = sendLog /\ detectLog' = detectLog /\ sweep' = sweep) =>
              /\ Len(anomalies') = Len(anomalies)
              /\ \A id \in AnomalyIds :
                    WithResolution(anomalies'[id], anomalies[id]) = anomalies[id]]_vars

\* an anomaly that was marked, delivered to the webhook and resolved
C24_Witness ==
    \E id \in AnomalyIds : \E call \in Returned :
        /\ call.anomaly_id = id
        /\ call.result = TRUE
        /\ anomalies[id].processed
        /\ anomalies[id].resolved

----------------------------------------------------------------------------
(* The core next to the ingest endpoint: batches arrive while detection,    *)
(* alert sweeps and send_anomaly_alert tasks run                            *)

IngestP1 ==
    \E e \in SchedulerShapes :
        Ingest(e.project_id, e.method, e.path, e.status_code, e.ip,
               e.country_code, e.n)

InitCore ==
    /\ requests = <<>>
    /\ anomalies = <<>>
    /\ now = 0
    /\ detectLog = <<>>
    /\ channels = <<AlertChannel(1, "P1", "webhook",
                        [NoConfig EXCEPT !.webhook_url = "https://sink.example.com/hook"],
                        TRUE)>>
    /\ detectTasks = <<>>
    /\ IngestIdle
    /\ SdkFresh(default_batch_size)
    /\ Quiet

NextCore ==
    \/ IngestP1
    \/ DetectP1Fast
    \/ \E s \in Sweeps : SweepQuery(s)
    \/ \E s \in Sweeps : SweepCommit(s)
    \/ \E s \in Sweeps : SweepDispatch(s)
    \/ \E s \in Sweeps : Crash(s)
    \/ SendQueued

CoreSpec == InitCore /\ [][NextCore]_vars

\* C25: no step removes or changes a stored request event, a step of
\* detect, of an alert sweep or of send_alert leaves the event log and the
\* channel registry as they are, and all that happens to the anomaly store is
\* that rows are added and processed flags go from false to true.
C25_EventLogReadOnly ==
    [][/\ Len(requests') >= Len(requests)
       /\ \A i \in 1..Len(requests) : requests'[i] = requests[i]
       /\ (detectLog' /= detectLog \/ sweep' /= sweep \/ sendLog' /= sendLog)
              => (requests' = requests /\ channels' = channels)
       /\ Len(anomalies') >= Len(anomalies)
       /\ \A id \in AnomalyIds :
             /\ WithProcessed(anomalies'[id], anomalies[id]) = anomalies[id]
             /\ anomalies[id].processed => anomalies'[id].processed]_vars

\* two batches are stored, the second after the anomaly of the first was
\* marked and delivered
C25_Witness ==
    /\ Len(requests) = 2
    /\ \E run \in Runs : Len(run.requests) = 1 /\ run.out /= <<>>
    /\ \E call \in Returned : call.result = TRUE /\ anomalies[call.anomaly_id].processed

\* the channel's config lacks the field its kind needs
LacksField(c) ==
    IF c.type = "email" THEN c.config.email = "" ELSE c.config.webhook_url = ""

C27_KnownNeverFlagged ==
    \A run \in Runs : \A pair \in PairsBefore(run) :
        run.failed = 0 => NewEndpointIdx(run, pair) = {}

\* a pair with one event before the window and one inside it is not reported
C27_Witness ==
    \E run \in Runs :
        /\ run.failed = 0
        /\ Len(run.requests) = 2
        /\ <<"G", "x">> \in PairsBefore(run) \cap PairsInWindow(run)
        /\ NewEndpointIdx(run, <<"G", "x">>) = {}
        /\ run.out = <<>>

\* C28: a row enters the anomaly table only in a detect call, with processed
\* false, resolved false and resolved_at unset; the processed column of a
\* stored row changes only from false to true, in the step of a sweep that
\* marks that row.
C28_InitialLifecycle ==
    [][/\ Len(anomalies') >= Len(anomalies)
       /\ Len(anomalies') > Len(anomalies) => detectLog' /= detectLog
       /\ \A id \in (Len(anomalies) + 1)..Len(anomalies') :
             /\ anomalies'[id].processed = FALSE
             /\ anomalies'[id].resolved = FALSE
             /\ anomalies'[id].resolved_at = -1
       /\ \A id \in AnomalyIds :
             anomalies'[id].processed /= anomalies[id].processed =>
                 /\ anomalies[id].processed = FALSE
                 /\ anomalies'[id].processed = TRUE
                 /\ \E s \in Sweeps :
                       /\ sweep[s].pc = "mark"
                       /\ sweep[s].todo[sweep[s].i] = id
                       /\ sweep'[s].pc = "send"]_vars

\* a second detect call stored a row after a sweep marked the first one
C28_Witness ==
    /\ Len(detectLog) = 2
    /\ \E id \in AnomalyIds :
          /\ id <= detectLog[2].first
          /\ anomalies[id].processed
          /\ claimed[id] /= {}
    /\ \E id \in AnomalyIds :
          /\ id > detectLog[2].first
          /\ ~anomalies[id].processed
          /\ ~anomalies[id].resolved
          /\ anomalies[id].resolved_at = -1

----------------------------------------------------------------------------
(* The channel table as the database holds it: AlertChannel.type is a       *)
(* String column, so a row may carry a type send_alert has no branch for    *)

StoredTypes == ChannelTypes \cup {"sms"}

StoredShapes ==
    UNION {{AlertChannel(0, "P1", type, config, active) :
                config \in Configs(type), active \in BOOLEAN}
           : type \in StoredTypes}

StoredTables ==
    UNION {{[i \in 1..k |-> [c[i] EXCEPT !.id = i]] : c \in [1..k -> StoredShapes]}
           : k \in 0..MaxChannels}

\* The anomaly raised for P1's first event has been claimed and queued by
\* sweep s1; P1's channels are any rows of the table
InitStored ==
    /\ requests = <<ApiRequest("P1", "G", "x", 200, "ip1", "US", 0, 1)>>
    /\ anomalies = MarkProcessed(
           AddAll(<<>>, DetectResult(requests, "P1", [k \in 1..4 |-> 0]), 0), 1)
    /\ now = 0
    /\ detectLog = <<>>
    /\ sweep = [s \in Sweeps |-> Idle]
    /\ claimed = <<{"s1"}>>
    /\ dispatched = <<1>>
    /\ channels \in StoredTables
    /\ sendLog = <<>>
    /\ detectTasks = <<>>
    /\ IngestIdle
    /\ SdkFresh(default_batch_size)

NextStored == SendQueued

StoredSpec == InitStored /\ [][NextStored]_vars

\* C29: when send_alert returns true, it has made at least one delivery
\* attempt, and every active channel of the anomaly's project has an attempt
\* that succeeded, whatever type the channels carry.
C29_TrueMeansDelivered ==
    \A call \in Returned :
        call.result = TRUE =>
            /\ call.attempts /= <<>>
            /\ \A c \in ActiveOf(call) : ResultOf(call, c)

\* C30: a detect call in which a scanner raises returns nothing and leaves
\* the anomaly table as it was before the call: nothing of what the scanners
\* that had completed found is stored.
C30_AllOrNothing ==
    [][(/\ Len(detectLog') = Len(detectLog) + 1
        /\ detectLog'[Len(detectLog')].failed /= 0)
       => /\ anomalies' = anomalies
          /\ detectLog'[Len(detectLog')].out = <<>>]_vars

\* the last scanner raised in a call whose first scanner had found a new
\* endpoint, after an earlier call had stored rows: the table is as that
\* earlier call left it
C30_Witness ==
    \E i \in 1..Len(detectLog) :
        /\ i = Len(detectLog)
        /\ detectLog[i].failed = 4
        /\ ScannerResult(detectLog[i], 1) /= <<>>
        /\ detectLog[i].first > 0
        /\ Len(anomalies) = detectLog[i].first

----------------------------------------------------------------------------
(* Detection repeated while the events of a project grow older: the clock   *)
(* moves on to just before, to and past the end of the new-endpoint window  *)

AgeShapes ==
    {ApiRequest("P1", m, path, 200, "ip1", "US", 0, 1) : m \in Methods, path \in Paths}

InitAge == InitWith(EventLogs(AgeShapes, {0}), 0)

AgeSteps == {endpoint_window - 1, endpoint_window, endpoint_window + 1}

IngestAge ==
    \E e \in AgeShapes :
        Ingest(e.project_id, e.method, e.path, e.status_code, e.ip,
               e.country_code, e.n)

NextAge ==
    \/ \E d \in AgeSteps : Tick(d)
    \/ IngestAge
    \/ DetectP1Fast

AgeSpec == InitAge /\ [][NextAge]_vars

\* the creation time of the earliest event of the pair in the run's log
Earliest(run, pair) ==
    LET times == {r.created_at : r \in
                     {q \in RowsOf(run) : q.method = pair[1] /\ q.path = pair[2]}}
    IN CHOOSE t \in times : \A u \in times : t <= u

\* C31 as stated: a detect call reports a pair as NewEndpoint only while the
\* pair's earliest event is less than 1 hour old.
C31_ReflagBoundedStrict ==
    \A run \in Runs : \A pair \in Flagged(run) :
        run.failed = 0 => run.ts[1] - Earliest(run, pair) < endpoint_window

\* C31 (amended): a detect call reports a pair as NewEndpoint only while the
\* pair's earliest event is at most 1 hour old; a call made when the earliest
\* event is older than 1 hour does not report the pair.
C31_ReflagBounded ==
    \A run \in Runs : \A pair \in Flagged(run) :
        run.failed = 0 => run.ts[1] - Earliest(run, pair) <= endpoint_window

\* a pair first seen an hour ago is reported, and a later call on the same
\* log, made a minute or more past the hour, does not report it
C31_Witness ==
    \E i, j \in 1..Len(detectLog) :
        /\ i < j
        /\ detectLog[i].requests = detectLog[j].requests
        /\ <<"G", "x">> \in Flagged(detectLog[i])
        /\ detectLog[i].ts[1] - Earliest(detectLog[i], <<"G", "x">>) = endpoint_window
        /\ detectLog[j].ts[1] - Earliest(detectLog[j], <<"G", "x">>) > endpoint_window
        /\ <<"G", "x">> \notin Flagged(detectLog[j])

\* the run reported a new endpoint under the key of event r
KeyFlagged(run, r) ==
    \E k \in 1..Len(run.out) :
        /\ run.out[k].type = "new_endpoint"
        /\ EndpointKey(run.out[k].message.method, run.out[k].message.path)
               = EndpointKey(r.method, r.path)

\* C32: in one _detect_new_endpoints call, with the cutoff one hour before
\* its clock reading, every event of the project is either inside the window
\* or in the history and never both; an event at the cutoff is inside the
\* window.  The call treats it so: the key of a history event is not
\* reported, and the key of a window event that no history event has is.
C32_WindowHistoryPartition ==
    \A run \in Runs :
        LET cutoff == run.ts[1] - endpoint_window
            hist == {q \in RowsOf(run) : q.created_at < cutoff}
        IN run.failed = 0 =>
            \A r \in RowsOf(run) :
                /\ InWindow(r, cutoff) /= InHistory(r, cutoff)
                /\ r.created_at = cutoff => InWindow(r, cutoff)
                /\ InWindow(r, cutoff) = (r.created_at >= cutoff)
                /\ r \in hist => ~KeyFlagged(run, r)
                /\ (/\ r \notin hist
                    /\ \A q \in hist :
                          EndpointKey(q.method, q.path) /= EndpointKey(r.method, r.path))
                   => KeyFlagged(run, r)

\* an event exactly at the cutoff is reported as new while an event of
\* another pair, one minute older, is history
C32_Witness ==
    \E run \in Runs : \E r, q \in RowsOf(run) :
        /\ run.failed = 0
        /\ r.created_at = run.ts[1] - endpoint_window
        /\ q.created_at = run.ts[1] - endpoint_window - 1
        /\ KeyFlagged(run, r)
        /\ ~KeyFlagged(run, q)

----------------------------------------------------------------------------
(* Alert sweeps around scheduler downtime: hours pass between detection and *)
(* the sweeps, and while a sweep is running                                 *)

\* the first batch, stored before the downtime
StaleShapes == {ApiRequest("P1", "G", "x", 200, "ip1", "US", 0, 1)}

\* a later batch for another endpoint
IngestStale == Ingest("P1", "G", "y", 200, "ip1", "US", 1)

InitStale == InitWith({<<e>> : e \in StaleShapes}, 0)

NextStale ==
    \/ TickHour
    \/ IngestStale
    \/ DetectP1Fast
    \/ \E s \in Sweeps : SweepQueryAlone(s)
    \/ \E s \in Sweeps : SweepCommit(s)
    \/ \E s \in Sweeps : SweepDispatch(s)

StaleSpec == InitStale /\ [][NextStale]_vars

\* the anomaly is older than the sweep's window
Stale(id) == anomalies[id].created_at < now - sweep_window

\* a running sweep has the anomaly in the part of its query result that it
\* has not finished
Held(id) ==
    \E s \in Sweeps :
        /\ sweep[s].pc /= "idle"
        /\ \E k \in sweep[s].i..Len(sweep[s].todo) : sweep[s].todo[k] = id

\* C33 as stated: an anomaly that is unprocessed and older than 1 hour is
\* not claimed and not dispatched in any later step, and its processed flag
\* stays false.
C33_StaleNeverAlerted ==
    [][\A id \in AnomalyIds :
          (Stale(id) /\ ~anomalies[id].processed) =>
              /\ ~anomalies'[id].processed
              /\ claimed'[id] = claimed[id]
              /\ dispatched'[id] = dispatched[id]]_vars

\* C33 (amended): an anomaly that is unprocessed and older than 1 hour is
\* selected by no sweep that starts from then on; unless a sweep that
\* selected it before is still running, it is not claimed, not dispatched and
\* its processed flag stays false.
C33_StaleNeverSelected ==
    [][\A id \in AnomalyIds :
          (Stale(id) /\ ~anomalies[id].processed /\ ~Held(id)) =>
              /\ ~anomalies'[id].processed
              /\ claimed'[id] = claimed[id]
              /\ dispatched'[id] = dispatched[id]
              /\ ~Held(id)']_vars

\* after two hours without a sweep the first anomaly is untouched, while a
\* sweep has claimed and dispatched an anomaly raised after the downtime
C33_Witness ==
    \E id, later \in AnomalyIds :
        /\ Stale(id)
        /\ ~anomalies[id].processed
        /\ claimed[id] = {}
        /\ dispatched[id] = 0
        /\ anomalies[later].created_at > anomalies[id].created_at + sweep_window
        /\ anomalies[later].processed
        /\ dispatched[later] > 0
        /\ ~Busy

----------------------------------------------------------------------------
(* The alert sweeps under a scheduler that keeps running them: a sweep that *)
(* can start does start, and a running sweep takes its next step            *)

FairSweeps ==
    /\ WF_vars(\E s \in Sweeps : SweepQueryAlone(s))
    /\ \A s \in Sweeps : WF_vars(SweepCommit(s)) /\ WF_vars(SweepDispatch(s))

LiveSpec == InitStale /\ [][NextStale]_vars /\ FairSweeps

\* the ids the anomaly table can come to hold
LiveIds == 1..(MaxDetects * MaxBatches)

\* the sweep that marked the anomaly has made its call of
\* send_anomaly_alert.delay for it, whatever came of the call
Invoked(id) ==
    /\ anomalies[id].processed
    /\ ~\E s \in Sweeps : sweep[s].pc = "send" /\ sweep[s].todo[sweep[s].i] = id

\* C34: with sweeps that keep running and never crash, an anomaly that a
\* sweep started within 1 hour of its creation has selected is eventually
\* processed and has dispatch invoked for it.
C34_AlertLiveness ==
    \A id \in LiveIds :
        (id \in AnomalyIds /\ Held(id))
            ~> (id \in AnomalyIds /\ anomalies[id].processed /\ Invoked(id))

----------------------------------------------------------------------------
(* Two projects side by side: each has events that would raise or suppress  *)
(* anomalies of the other if they were counted for it, and a channel         *)

TenantShapes ==
    UNION {{ApiRequest(p, "G", "x", 200, "ip1", "US", 0, 1),
            ApiRequest(p, "G", "x", 200, "ip1", "US", 0, request_threshold),
            ApiRequest(p, "G", "x", 500, "ip1", "KP", 0, min_requests)}
           : p \in Projects}

\* before the new-endpoint window and at the clock reading
TenantTimes == {0, 1 + endpoint_window}

TenantChannels ==
    <<AlertChannel(1, "P1", "webhook",
          [NoConfig EXCEPT !.webhook_url = "https://sink.example.com/p1"], TRUE),
      AlertChannel(2, "P2", "webhook",
          [NoConfig EXCEPT !.webhook_url = "https://sink.example.com/p2"], TRUE)>>

InitTenant ==
    /\ requests \in EventLogs(TenantShapes, TenantTimes)
    /\ anomalies = <<>>
    /\ now = 1 + endpoint_window
    /\ detectLog = <<>>
    /\ channels = TenantChannels
    /\ detectTasks = <<>>
    /\ IngestIdle
    /\ SdkFresh(default_batch_size)
    /\ Quiet

DetectAny == \E p \in Projects : Detect(p, {[k \in 1..4 |-> now]})

SendAny ==
    \E anomaly_id \in AnomalyIds :
        \E resps \in [Reached(anomaly_id) -> Responses] :
            SendAlert(anomaly_id, WorkerEnv, resps)

NextTenant == DetectAny \/ SendAny

TenantSpec == InitTenant /\ [][NextTenant]_vars

\* the events of project p in the log
OwnEvents(reqs, p) == SelectSeq(reqs, LAMBDA r : r.project_id = p)

\* C35: a detect call for project P returns what it returns on the log with
\* every other project's events removed; every anomaly it returns and stores
\* carries project_id = P; send_alert for an anomaly makes attempts only for
\* channels of the anomaly's project.
C35_ProjectIsolation ==
    /\ \A run \in Runs :
          run.failed = 0 =>
              /\ run.out = DetectResult(OwnEvents(run.requests, run.project_id),
                                        run.project_id, run.ts)
              /\ \A k \in 1..Len(run.out) :
                    /\ run.out[k].project_id = run.project_id
                    /\ anomalies[run.first + k].project_id = run.project_id
    /\ \A call \in Range(sendLog) :
          call.anomaly_id \in AnomalyIds =>
              \A j \in 1..Len(call.attempts) :
                  \E c \in Range(channels) :
                      /\ c.id = call.attempts[j].channel_id
                      /\ c.project_id = anomalies[call.anomaly_id].project_id

\* a detect call for P1 on a log that also holds an event of P2 raised an
\* anomaly, and its alert went to P1's channel only
C35_Witness ==
    \E run \in Runs : \E call \in Returned :
        /\ run.project_id = "P1"
        /\ OwnEvents(run.requests, "P1") /= run.requests
        /\ run.out /= <<>>
        /\ anomalies[call.anomaly_id].project_id = "P1"
        /\ Len(call.attempts) = 1
        /\ call.attempts[1].channel_id = 1
        /\ call.result = TRUE

----------------------------------------------------------------------------
(* The SDK in an application: two threads capture requests while the batch  *)
(* timer fires and the backend accepts, rejects or fails to answer          *)

\* what requests.post gives: 201, another status, or an exception (-1)
PostOutcomes == {created, server_error, -1}

InitSdk ==
    /\ requests = <<>>
    /\ anomalies = <<>>
    /\ now = 0
    /\ detectLog = <<>>
    /\ channels = <<>>
    /\ detectTasks = <<>>
    /\ Quiet
    /\ IngestIdle
    /\ \E size \in 1..MaxBatchSize : SdkFresh(size)

\* the next step of thread t inside the SDK
SdkStep(t) ==
    \/ CaptureAppend(t)
    \/ SendBatchTake(t)
    \/ \E status_code \in PostOutcomes : SendBatchPost(t, status_code)
    \/ SendBatchPutBack(t)

NextSdk ==
    \/ \E t \in CaptureThreads : CaptureCall(t)
    \/ \E t \in TimerThreads : TimerFire(t)
    \/ \E t \in SdkThreads : SdkStep(t)

SdkSpec == InitSdk /\ [][NextSdk]_vars

\* every thread that can take its next step takes it
SdkLiveSpec == SdkSpec /\ \A t \in SdkThreads : WF_vars(SdkStep(t))

\* the thread is at a `with self.queue_lock`
AtLock(t) == threads[t].pc \in {"append", "take", "put_back"}

\* C36: every capture_request call returns, the call that fills the queue
\* to batch_size included, and no thread stays at queue_lock forever.
C36_CaptureTerminates ==
    /\ \A t \in CaptureThreads : (threads[t].pc /= "idle") ~> (threads[t].pc = "idle")
    /\ \A t \in SdkThreads : AtLock(t) ~> ~AtLock(t)

\* the places a captured request log can be in: the queue, the batch of a
\* _send_batch run between its copy and its end, the batches delivered
Places ==
    LET ts == SetToSeq(SdkThreads)
    IN <<request_queue>>
       \o [k \in 1..Len(ts) |->
              IF threads[ts[k]].pc \in {"post", "put_back"}
              THEN threads[ts[k]].batch ELSE <<>>]
       \o delivered

\* how many times log id occurs in all places together
Copies(id) ==
    Cardinality({ik \in (1..Len(Places)) \X (1..captured) :
                    /\ ik[2] <= Len(Places[ik[1]])
                    /\ Places[ik[1]][ik[2]] = id})

\* C37: at all times every captured request log is in exactly one place:
\* the queue, one batch that is being sent, or a batch the backend answered
\* with 201; and a batch whose send failed is put back in its order in front
\* of what the queue then holds.
C37_NoLossNoDuplicate ==
    /\ [](\A id \in 1..captured : Copies(id) = 1)
    /\ [][\A t \in SdkThreads :
             (threads[t].pc = "put_back" /\ threads'[t].pc = "idle")
                 => request_queue' = threads[t].batch \o request_queue]_vars

\* log 1 was taken by a timer run whose send failed; meanwhile log 2 was
\* delivered by another run and log 3 was captured: log 1 is back in front
C37_Witness ==
    /\ captured = 3
    /\ request_queue = <<1, 3>>
    /\ delivered = <<<<2>>>>
    /\ \A t \in SdkThreads : threads[t].pc = "idle"

----------------------------------------------------------------------------
(* The ingest endpoint under concurrent calls: SDK instances of the         *)
(* projects post batches at the same time                                   *)

\* len(request_batch.requests)
BatchLens == {1, 2}

InitCounter == InitWith({<<>>}, 0)

NextCounter ==
    \/ \E h \in Handlers : \E p \in Projects : IngestLoad(h, p)
    \/ \E h \in Handlers : \E n \in BatchLens :
          IngestCommit(h, "G", "x", 200, "ip1", "US", n)

CounterSpec == InitCounter /\ [][NextCounter]_vars

\* C38: when the concurrent ingest_api_requests calls have ended, every
\* project's request_count equals the number of rows stored for it.
C38_CounterConsistent ==
    (\A h \in Handlers : handlers[h].pc = "idle") =>
        \A p \in Projects : project_table[p] = StoredCount(requests, p)

----------------------------------------------------------------------------
(* The endpoint key of _detect_new_endpoints over the methods and paths the *)
(* ingest schema accepts                                                    *)

KeyOf(r) == EndpointKey(r.method, r.path)
PairOf(r) == <<r.method, r.path>>

\* C39: in a _detect_new_endpoints call two events of the project have the
\* same endpoint key only if they have the same (method, path) pair, and so
\* every pair with an event inside the window and none before it is reported:
\* none is suppressed through the key of a different pair.
C39_KeyInjective ==
    \A run \in Runs :
        /\ \A a, b \in RowsOf(run) : KeyOf(a) = KeyOf(b) => PairOf(a) = PairOf(b)
        /\ \A pair \in PairsInWindow(run) \ PairsBefore(run) :
              NewEndpointIdx(run, pair) /= {}

====
